---- MODULE Spec2Model ----
(***************************************************************************)
(* Model of efm8.py: flashing a firmware image through the EFM8 factory    *)
(* HID bootloader (AN945).                                                 *)
(*                                                                         *)
(*   read_intel_hex : Intel HEX text  -> flat byte image                   *)
(*   to_frames      : byte image      -> ordered list of bootloader frames *)
(*   flash          : frames          -> HID feature reports, one          *)
(*                                       acknowledgement per frame         *)
(*                                                                         *)
(* The specifications share the variables:                                 *)
(*   Spec         - to_frames followed by flash, for a bounded set of      *)
(*                  images and both values of the checksum and run options;*)
(*   SpecLive     - flash on the lists to_frames returns, with fairness;   *)
(*   SpecBuild    - to_frames alone, images beyond 64 KiB included;        *)
(*   SpecParse    - read_intel_hex, one loop iteration per step, for a     *)
(*                  bounded set of input files;                            *)
(*   SpecChecksum - SpecParse and twos_complement called on its own.       *)
(***************************************************************************)
EXTENDS Integers, Sequences, FiniteSets, TLC

VARIABLES
    file,       \* read_intel_hex: hexfile.readlines(), a sequence of lines
    lineno,     \* read_intel_hex: number of lines already taken by the loop
    address,    \* read_intel_hex: running expected load address
    data,       \* the byte list: built by read_intel_hex, passed to to_frames
    orig,       \* the byte list as the caller held it before to_frames
    checksum,   \* to_frames: checksum option
    run,        \* to_frames: run option
    frames,     \* the list returned by to_frames, iterated by flash
    pc,         \* position of the program
    exc,        \* exception that ended the program, "none" if none
    dev,        \* the hid.device() handle: "new", "open" or "closed"
    fi,         \* flash: 1-based index of the frame of the current iteration
    off,        \* flash: offset of the next chunk of the current frame
    sent,       \* flash: log of the send_feature_report calls
    reads,      \* flash: number of get_feature_report calls
    ack,        \* flash: report[-1] of the last get_feature_report, -1 if none
    call        \* twos_complement called on its own: arguments and result

vars == <<file, lineno, address, data, orig, checksum, run, frames, pc, exc,
          dev, fi, off, sent, reads, ack, call>>

parseVars == <<file, lineno, address>>
flashVars == <<dev, fi, off, sent, reads, ack>>

-----------------------------------------------------------------------------
(* Bounds of the model *)

MaxLen == 513
MaxLines == 3
MaxAddr == 2
MaxBits == 8

-----------------------------------------------------------------------------
(* Program constants *)

SETUP == 49
ERASE == 50
WRITE == 51
VERIFY == 52
RUN == 54

Sentinel == 255
ChunkSize == 128
PageSize == 512
ReportSize == 64
AckOk == 64
Dollar == 36
CrcPoly == 4129
MaxLoadAddress == 65535
MaxCount == 255

-----------------------------------------------------------------------------
(* Integer and list primitives of Python used by the program *)

Min(a, b) == IF a < b THEN a ELSE b

RECURSIVE Pow2(_)
Pow2(n) == IF n = 0 THEN 1 ELSE 2 * Pow2(n - 1)

\* a & b for non-negative a and b
RECURSIVE BitAnd(_, _)
BitAnd(a, b) ==
    IF a = 0 \/ b = 0 THEN 0
    ELSE (IF a % 2 = 1 /\ b % 2 = 1 THEN 1 ELSE 0) + 2 * BitAnd(a \div 2, b \div 2)

\* a ^ b for non-negative a and b
RECURSIVE BitXor(_, _)
BitXor(a, b) ==
    IF a = 0 THEN b
    ELSE IF b = 0 THEN a
    ELSE (((a % 2) + (b % 2)) % 2) + 2 * BitXor(a \div 2, b \div 2)

\* s[a:b] with 0 <= a and 0 <= b: both ends are clipped to len(s)
PySlice(s, a, b) == SubSeq(s, Min(a, Len(s)) + 1, Min(b, Len(s)))

\* list(range(start, stop, step)) with step > 0
RECURSIVE PyRange(_, _, _)
PyRange(start, stop, step) ==
    IF start >= stop THEN << >>
    ELSE <<start>> \o PyRange(start + step, stop, step)

-----------------------------------------------------------------------------
(* twos_complement, toaddr, crc, create_frame *)

\* v & ~mask, for v >= 0: clears in v the bits set in mask
AndNot(v, mask) == v - BitAnd(v, mask)

\* variant: the one's complement
twos_complement_ones(input_value, num_bits) ==
    (Pow2(num_bits) - 1 - input_value) % Pow2(num_bits)

twos_complement(input_value, num_bits) ==
    LET mask == Pow2(num_bits - 1)
    IN  ((BitAnd(input_value, mask) - AndNot(input_value, mask))) % Pow2(num_bits)

\* no call of twos_complement on its own; result -1 stands for "not returned"
NoCall == [input_value |-> 0, num_bits |-> 0, result |-> -1]

toaddr(addr) == <<addr \div 256, addr % 256>>

\* PyCRC CRCCCITT (XModem): entry i of the table, built bit by bit
RECURSIVE CrcTabBits(_, _, _)
CrcTabBits(c, acc, j) ==
    IF j = 0 THEN acc
    ELSE LET top == BitAnd(BitXor(acc, c), 32768) # 0
             sh  == (acc * 2) % 65536
         IN  CrcTabBits((c * 2) % 65536,
                        IF top THEN BitXor(sh, CrcPoly) ELSE sh,
                        j - 1)

\* crc_ccitt_tab, built once when the CRCCCITT object is made
CrcTab == [i \in 0..255 |-> CrcTabBits(i * 256, 0, 8)]

\* one byte of CRCCCITT.calculate
CrcByte(crcValue, d) ==
    LET tmp == BitXor((crcValue \div 256) % 256, d)
    IN  BitXor((crcValue * 256) % 65536, CrcTab[tmp])

\* CRCCCITT.calculate over s[lo..hi] (1-based, inclusive), starting value acc
RECURSIVE CrcRange(_, _, _, _)
CrcRange(s, lo, hi, acc) ==
    IF lo > hi THEN acc
    ELSE IF lo = hi THEN CrcByte(acc, s[lo])
    ELSE LET mid == (lo + hi) \div 2
             left == CrcRange(s, lo, mid, acc)
         IN  IF left < 0 THEN left ELSE CrcRange(s, mid + 1, hi, left)

CrcValue(s) == CrcRange(s, 1, Len(s), 0)

crc(s) == LET ret == CrcValue(s) IN <<ret \div 256, ret % 256>>

create_frame(cmd, d) == <<Dollar, 1 + Len(d), cmd>> \o d

-----------------------------------------------------------------------------
(* to_frames *)

\* variant: the first byte is left as it is
SetFirst_kept(d) == d

\* the list after "data[0] = 0xFF"
SetFirst(d) == [d EXCEPT ![1] = Sentinel]

\* variant: only the chunk at address 0 is an ERASE
ChunkFrames_erase_first_only(d) ==
    LET addrs == PyRange(0, Len(d), ChunkSize)
    IN  [k \in 1..Len(addrs) |->
            create_frame(IF addrs[k] = 0 THEN ERASE ELSE WRITE,
                         toaddr(addrs[k]) \o PySlice(d, addrs[k], addrs[k] + ChunkSize))]

\* the frames appended by the loop over range(0, len(data), 128)
ChunkFrames(d) ==
    LET addrs == PyRange(0, Len(d), ChunkSize)
    IN  [k \in 1..Len(addrs) |->
            create_frame(IF addrs[k] % PageSize = 0 THEN ERASE ELSE WRITE,
                         toaddr(addrs[k]) \o PySlice(d, addrs[k], addrs[k] + ChunkSize))]

\* variant: the CRC is written low byte first
VerifyFrame_low_first(d) ==
    create_frame(VERIFY, <<0, 0>> \o toaddr(Len(d) - 1) \o <<crc(d)[2], crc(d)[1]>>)

VerifyFrame(d) == create_frame(VERIFY, <<0, 0>> \o toaddr(Len(d) - 1) \o crc(d))

\* variant: the 1-byte WRITE of the first byte is appended before VERIFY
to_frames_restore_early(d, cs, rn) ==
    LET data_zero == d[1]
        m == SetFirst(d)
    IN  <<create_frame(SETUP, <<165, 241, 0>>)>>
        \o ChunkFrames(m)
        \o <<create_frame(WRITE, <<0, 0, data_zero>>)>>
        \o (IF cs THEN <<VerifyFrame(m)>> ELSE << >>)
        \o (IF rn THEN <<create_frame(RUN, <<0, 0>>)>> ELSE << >>)

\* variant: RUN is appended before the 1-byte WRITE of the first byte
to_frames_run_early(d, cs, rn) ==
    LET data_zero == d[1]
        m == SetFirst(d)
    IN  <<create_frame(SETUP, <<165, 241, 0>>)>>
        \o ChunkFrames(m)
        \o (IF cs THEN <<VerifyFrame(m)>> ELSE << >>)
        \o (IF rn THEN <<create_frame(RUN, <<0, 0>>)>> ELSE << >>)
        \o <<create_frame(WRITE, <<0, 0, data_zero>>)>>

\* the list returned by to_frames(d, cs, rn); d is the list as passed in
to_frames(d, cs, rn) ==
    LET data_zero == d[1]
        m == SetFirst(d)
    IN  <<create_frame(SETUP, <<165, 241, 0>>)>>
        \o ChunkFrames(m)
        \o (IF cs THEN <<VerifyFrame(m)>> ELSE << >>)
        \o <<create_frame(WRITE, <<0, 0, data_zero>>)>>
        \o (IF rn THEN <<create_frame(RUN, <<0, 0>>)>> ELSE << >>)

\* the call of to_frames: the list of the caller is modified in place
ToFrames ==
    /\ pc = "build"
    /\ frames' = to_frames(data, checksum, run)
    /\ data' = SetFirst(data)
    /\ pc' = "open"
    /\ UNCHANGED <<call, parseVars, orig, checksum, run, exc, flashVars>>

-----------------------------------------------------------------------------
(* flash *)

\* acknowledgement bytes the device may return
AckValues == {0, 63, 64}

\* dev.open succeeds
DevOpen ==
    /\ pc = "open"
    /\ dev' = "open"
    /\ fi' = 1
    /\ off' = 0
    /\ pc' = "send"
    /\ UNCHANGED <<call, parseVars, data, orig, checksum, run, frames, exc, sent, reads, ack>>

\* dev.open raises: the with block closes the handle
DevOpenFails ==
    /\ pc = "open"
    /\ dev' = "closed"
    /\ exc' = "IOError"
    /\ pc' = "failed"
    /\ UNCHANGED <<call, parseVars, data, orig, checksum, run, frames, fi, off, sent, reads, ack>>

\* variant: the acknowledgement is read after every write
AfterChunk_read_each(frame, o) == "read"

\* variant: range(0, len(frame) + 1, 64), one more write when 64 divides len(frame)
AfterChunk_inclusive(frame, o) ==
    IF o + ReportSize > Len(frame) THEN "read" ELSE "send"

\* range(0, len(frame), 64) after the write at offset o: another write, or the read
AfterChunk(frame, o) ==
    IF o + ReportSize >= Len(frame) THEN "read" ELSE "send"

\* one iteration of "for off in range(0, len(frame), 64)"
SendChunk ==
    /\ pc = "send"
    /\ sent' = Append(sent, [frame |-> fi,
                             report |-> <<0>> \o PySlice(frames[fi], off, off + ReportSize)])
    /\ off' = off + ReportSize
    /\ pc' = AfterChunk(frames[fi], off)
    /\ UNCHANGED <<call, parseVars, data, orig, checksum, run, frames, exc, dev, fi, reads, ack>>

\* variant: a bad acknowledgement is ignored and the loop goes on
AfterAck_goes_on(fs, k, a) ==
    IF k < Len(fs)
    THEN [pc |-> "send", exc |-> "none", fi |-> k + 1]
    ELSE [pc |-> "done", exc |-> "none", fi |-> k]

\* variant: the command is looked up in the length byte, frame[1]
AfterAck_length_byte(fs, k, a) ==
    IF a # AckOk
    THEN [pc |-> "failed",
          exc |-> IF fs[k][2] = VERIFY THEN "BadChecksum" ELSE "BadResponse",
          fi |-> k]
    ELSE IF k < Len(fs)
    THEN [pc |-> "send", exc |-> "none", fi |-> k + 1]
    ELSE [pc |-> "done", exc |-> "none", fi |-> k]

\* what flash does with the acknowledgement a of the frame in position k of
\* list fs: [pc, exc, fi] after the check of report[-1]
\* variant: a refused frame ends the loop without raising
AfterAck_stops_quietly(fs, k, a) ==
    IF a # AckOk
    THEN [pc |-> "done", exc |-> "none", fi |-> k]
    ELSE IF k < Len(fs)
    THEN [pc |-> "send", exc |-> "none", fi |-> k + 1]
    ELSE [pc |-> "done", exc |-> "none", fi |-> k]

AfterAck(fs, k, a) ==
    IF a # AckOk
    THEN [pc |-> "failed",
          exc |-> IF fs[k][3] = VERIFY THEN "BadChecksum" ELSE "BadResponse",
          fi |-> k]
    ELSE IF k < Len(fs)
    THEN [pc |-> "send", exc |-> "none", fi |-> k + 1]
    ELSE [pc |-> "done", exc |-> "none", fi |-> k]

\* variant: the handle is closed on normal return only
HandleAfter_leaks_on_error(p, d) == IF p = "done" THEN "closed" ELSE d

\* contextlib.closing: the handle d once flash is at p; leaving the with block,
\* by return or by exception, closes it
HandleAfter(p, d) == IF p = "send" THEN d ELSE "closed"

\* dev.get_feature_report(0, 2) and the check of report[-1]
ReadAck(a) ==
    /\ pc = "read"
    /\ reads' = reads + 1
    /\ ack' = a
    /\ LET r == AfterAck(frames, fi, a)
       IN  /\ pc' = r.pc
           /\ exc' = r.exc
           /\ fi' = r.fi
           /\ off' = IF r.pc = "send" THEN 0 ELSE off
           /\ dev' = HandleAfter(r.pc, dev)
    /\ UNCHANGED <<call, parseVars, data, orig, checksum, run, frames, sent>>

AckAccepted == ReadAck(AckOk)
AckRejected == \E a \in AckValues \ {AckOk} : ReadAck(a)

-----------------------------------------------------------------------------
(* Images given to to_frames *)

FirstBytes == {0, 18, 255}

Lengths ==
    {n \in 1..MaxLen : n <= 3 \/ n = 300 \/ n = MaxLen \/ n % ChunkSize \in {0, 1, 59, 123, 127}}

Image(n, b) == [i \in 1..n |-> IF i = 1 THEN b ELSE (37 * (i - 1) + 11) % 256]

Images == {Image(n, b) : n \in Lengths, b \in FirstBytes}

Init ==
    /\ file = << >>
    /\ lineno = 0
    /\ address = 0
    /\ data \in Images
    /\ orig = data
    /\ checksum \in BOOLEAN
    /\ run \in BOOLEAN
    /\ frames = << >>
    /\ pc = "build"
    /\ exc = "none"
    /\ dev = "new"
    /\ fi = 0
    /\ off = 0
    /\ sent = << >>
    /\ reads = 0
    /\ ack = -1
    /\ call = NoCall

Next ==
    \/ ToFrames
    \/ DevOpen
    \/ DevOpenFails
    \/ SendChunk
    \/ AckAccepted
    \/ AckRejected

Spec == Init /\ [][Next]_vars

\* flash(frames) on its own: the state when flash is called with the list that
\* to_frames returned
InitFlash ==
    /\ file = << >>
    /\ lineno = 0
    /\ address = 0
    /\ orig \in Images
    /\ data = SetFirst(orig)
    /\ checksum \in BOOLEAN
    /\ run \in BOOLEAN
    /\ frames = to_frames(orig, checksum, run)
    /\ pc = "open"
    /\ exc = "none"
    /\ dev = "new"
    /\ fi = 0
    /\ off = 0
    /\ sent = << >>
    /\ reads = 0
    /\ ack = -1
    /\ call = NoCall

NextFlash ==
    \/ DevOpen
    \/ DevOpenFails
    \/ SendChunk
    \/ AckAccepted
    \/ AckRejected

\* flash is straight-line code around two loops: every statement reached is
\* executed, and get_feature_report is taken to return whenever it is called
Fairness ==
    /\ WF_vars(DevOpen \/ DevOpenFails)
    /\ WF_vars(SendChunk)
    /\ WF_vars(AckAccepted \/ AckRejected)

SpecLive == InitFlash /\ [][NextFlash]_vars /\ Fairness

-----------------------------------------------------------------------------
(* to_frames on its own, the longest images read_intel_hex can return included *)

\* read_intel_hex admits a record at address == len(data) for a 4-digit address
\* and adds up to 255 bytes: the image can grow to 0xFFFF + 255 bytes
LongLengths == {MaxLoadAddress + 1, MaxLoadAddress + 2, MaxLoadAddress + MaxCount}

LongImages == {Image(n, 18) : n \in LongLengths}

InitBuild ==
    /\ file = << >>
    /\ lineno = 0
    /\ address = 0
    /\ data \in Images \cup LongImages
    /\ orig = data
    /\ checksum \in BOOLEAN
    /\ run \in BOOLEAN
    /\ frames = << >>
    /\ pc = "build"
    /\ exc = "none"
    /\ dev = "new"
    /\ fi = 0
    /\ off = 0
    /\ sent = << >>
    /\ reads = 0
    /\ ack = -1
    /\ call = NoCall

NextBuild == ToFrames

SpecBuild == InitBuild /\ [][NextBuild]_vars

-----------------------------------------------------------------------------
(* read_intel_hex *)

\* A line is a sequence of characters, each a one-character string.
HexDigits == <<"0", "1", "2", "3", "4", "5", "6", "7", "8", "9",
               "A", "B", "C", "D", "E", "F">>
LowerHexDigits == <<"0", "1", "2", "3", "4", "5", "6", "7", "8", "9",
                    "a", "b", "c", "d", "e", "f">>

Whitespace == {"\n", " "}

\* value of one hexadecimal digit, -1 if the character is not one
HexVal(c) ==
    IF \E i \in 1..16 : HexDigits[i] = c
    THEN (CHOOSE i \in 1..16 : HexDigits[i] = c) - 1
    ELSE IF \E i \in 1..16 : LowerHexDigits[i] = c
    THEN (CHOOSE i \in 1..16 : LowerHexDigits[i] = c) - 1
    ELSE -1

RECURSIVE StripLeft(_)
StripLeft(s) ==
    IF s # << >> /\ Head(s) \in Whitespace THEN StripLeft(Tail(s)) ELSE s

RECURSIVE StripRight(_)
StripRight(s) ==
    IF s # << >> /\ s[Len(s)] \in Whitespace THEN StripRight(SubSeq(s, 1, Len(s) - 1)) ELSE s

RECURSIVE HexFold(_, _)
HexFold(s, acc) ==
    IF s = << >> THEN acc
    ELSE IF HexVal(Head(s)) < 0 THEN -1
    ELSE HexFold(Tail(s), acc * 16 + HexVal(Head(s)))

\* int(s, 16) for the characters above; -1 stands for ValueError
PyInt16(s) ==
    LET t == StripRight(StripLeft(s))
    IN  IF t = << >> THEN -1 ELSE HexFold(t, 0)

\* line.startswith(prefix)
StartsWith(line, prefix) == PySlice(line, 0, Len(prefix)) = prefix

ExtendedAddressPrefix ==
    <<":", "0", "2", "0", "0", "0", "0", "0", "4", "0", "0", "0", "0", "F", "A">>
EndOfFilePrefix == <<":", "0", "0", "0", "0", "0", "0", "0", "1", "F", "F">>

\* [int(line[x:x + 2], 16) for x in range(start, stop, 2)]
HexPairs(line, start, stop) ==
    LET xs == PyRange(start, stop, 2)
    IN  [k \in 1..Len(xs) |-> PyInt16(PySlice(line, xs[k], xs[k] + 2))]

RECURSIVE SumSeq(_)
SumSeq(s) == IF s = << >> THEN 0 ELSE Head(s) + SumSeq(Tail(s))

\* int(line[1:3], 16) and int(line[3:7], 16)
CountField(line) == PyInt16(PySlice(line, 1, 3))
AddressField(line) == PyInt16(PySlice(line, 3, 7))

\* length = 9 + int(line[1:3], 16) * 2
InputChars(line) == 9 + CountField(line) * 2

\* variant: only a gap is refused, a record below the running address passes
AddressMismatch_gap_only(line, addr) == AddressField(line) > addr

\* int(line[3:7], 16) != address
AddressMismatch(line, addr) == AddressField(line) # addr

\* variant: the embedded checksum is not compared
ChecksumMismatch_unchecked(line) == FALSE

\* int(line[length:length + 2], 16) != twos_complement(sum([...]) & 0xFF)
ChecksumMismatch(line) ==
    LET length == InputChars(line)
    IN  PyInt16(PySlice(line, length, length + 2))
          # twos_complement(BitAnd(SumSeq(HexPairs(line, 1, length)), 255), 8)

\* some int(..., 16) of the checksum test raises ValueError
ChecksumMalformed(line) ==
    \/ CountField(line) < 0
    \/ LET length == InputChars(line)
       IN  \/ PyInt16(PySlice(line, length, length + 2)) < 0
           \/ \E k \in DOMAIN HexPairs(line, 1, length) : HexPairs(line, 1, length)[k] < 0

\* variant: "continue" at the end-of-file record instead of "break"
LineOutcome_eof_continue(line, addr) ==
    IF line[1] # ":" THEN "skip"
    ELSE IF StartsWith(line, ExtendedAddressPrefix) THEN "skip"
    ELSE IF StartsWith(line, EndOfFilePrefix) THEN "skip"
    ELSE IF PySlice(line, 7, 9) # <<"0", "0">> THEN "Unsupported"
    ELSE IF AddressField(line) < 0 THEN "ValueError"
    ELSE IF AddressMismatch(line, addr) THEN "Unsupported"
    ELSE IF ChecksumMalformed(line) THEN "ValueError"
    ELSE IF ChecksumMismatch(line) THEN "BadChecksum"
    ELSE "accept"

\* variant: every record of type 04 is skipped, whatever upper word it sets
LineOutcome_skips_any_04(line, addr) ==
    IF line[1] # ":" THEN "skip"
    ELSE IF PySlice(line, 7, 9) = <<"0", "4">> THEN "skip"
    ELSE IF StartsWith(line, EndOfFilePrefix) THEN "break"
    ELSE IF PySlice(line, 7, 9) # <<"0", "0">> THEN "Unsupported"
    ELSE IF AddressField(line) < 0 THEN "ValueError"
    ELSE IF AddressMismatch(line, addr) THEN "Unsupported"
    ELSE IF ChecksumMalformed(line) THEN "ValueError"
    ELSE IF ChecksumMismatch(line) THEN "BadChecksum"
    ELSE "accept"

\* what one iteration of the loop does with a line, the running address being addr
LineOutcome(line, addr) ==
    IF line[1] # ":" THEN "skip"
    ELSE IF StartsWith(line, ExtendedAddressPrefix) THEN "skip"
    ELSE IF StartsWith(line, EndOfFilePrefix) THEN "break"
    ELSE IF PySlice(line, 7, 9) # <<"0", "0">> THEN "Unsupported"
    ELSE IF AddressField(line) < 0 THEN "ValueError"
    ELSE IF AddressMismatch(line, addr) THEN "Unsupported"
    ELSE IF ChecksumMalformed(line) THEN "ValueError"
    ELSE IF ChecksumMismatch(line) THEN "BadChecksum"
    ELSE "accept"

Parsing == pc = "parse" /\ lineno < Len(file)
CurrentLine == file[lineno + 1]

\* "continue"
SkipLine ==
    /\ Parsing
    /\ LineOutcome(CurrentLine, address) = "skip"
    /\ lineno' = lineno + 1
    /\ UNCHANGED <<call, file, address, data, orig, checksum, run, frames, pc, exc, flashVars>>

\* variant: the running address is not advanced
AcceptRecord_no_advance ==
    /\ Parsing
    /\ LineOutcome(CurrentLine, address) = "accept"
    /\ data' = data \o HexPairs(CurrentLine, 9, InputChars(CurrentLine))
    /\ lineno' = lineno + 1
    /\ UNCHANGED <<call, file, address, orig, checksum, run, frames, pc, exc, flashVars>>

\* a data record passes every test
AcceptRecord ==
    /\ Parsing
    /\ LineOutcome(CurrentLine, address) = "accept"
    /\ address' = address + CountField(CurrentLine)
    /\ data' = data \o HexPairs(CurrentLine, 9, InputChars(CurrentLine))
    /\ lineno' = lineno + 1
    /\ UNCHANGED <<call, file, orig, checksum, run, frames, pc, exc, flashVars>>

Raise(e) ==
    /\ pc' = "raised"
    /\ exc' = e
    /\ UNCHANGED <<call, parseVars, data, orig, checksum, run, frames, flashVars>>

\* raise Unsupported for the record type or the load address
RejectUnsupported ==
    /\ Parsing
    /\ LineOutcome(CurrentLine, address) = "Unsupported"
    /\ Raise("Unsupported")

\* raise BadChecksum
RejectChecksum ==
    /\ Parsing
    /\ LineOutcome(CurrentLine, address) = "BadChecksum"
    /\ Raise("BadChecksum")

\* int() raises ValueError on a field of the line
RejectMalformed ==
    /\ Parsing
    /\ LineOutcome(CurrentLine, address) = "ValueError"
    /\ Raise("ValueError")

\* the loop is over: no line is left, or "break" at the end-of-file record
LoopOver ==
    /\ pc = "parse"
    /\ \/ lineno = Len(file)
       \/ lineno < Len(file) /\ LineOutcome(CurrentLine, address) = "break"

\* "if data == []: raise Unsupported"
NoData ==
    /\ LoopOver
    /\ data = << >>
    /\ Raise("Unsupported")

\* "return data"
ReturnImage ==
    /\ LoopOver
    /\ data # << >>
    /\ pc' = "returned"
    /\ UNCHANGED <<call, parseVars, data, orig, checksum, run, frames, exc, flashVars>>

-----------------------------------------------------------------------------
(* Input files of read_intel_hex *)

HexByte(b) == <<HexDigits[(b \div 16) + 1], HexDigits[(b % 16) + 1]>>

RECURSIVE HexBytes(_)
HexBytes(bs) == IF bs = << >> THEN << >> ELSE HexByte(Head(bs)) \o HexBytes(Tail(bs))

\* the line ":LLAAAATTDD..DDCC\n" of a record
RecordLine(ll, a, t, bs, cc) ==
    <<":">> \o HexBytes(<<ll, a \div 256, a % 256, t>> \o bs \o <<cc>>) \o <<"\n">>

\* the checksum that makes the bytes of the record sum to 0 modulo 256
SumToZero(ll, a, t, bs) ==
    (256 - ((ll + (a \div 256) + (a % 256) + t + SumSeq(bs)) % 256)) % 256

\* the n bytes a file declares from address a on
BytesAt(a, n) == [i \in 1..n |-> (17 * (a + i - 1) + 3) % 256]

GoodData(a, n) == RecordLine(n, a, 0, BytesAt(a, n), SumToZero(n, a, 0, BytesAt(a, n)))
BadSumData(a, n) ==
    RecordLine(n, a, 0, BytesAt(a, n), (SumToZero(n, a, 0, BytesAt(a, n)) + 1) % 256)

DataLines ==
    {GoodData(a, n) : a \in 0..MaxAddr, n \in 0..2} \cup {BadSumData(a, 1) : a \in 0..MaxAddr}

OtherLines ==
    { ExtendedAddressPrefix \o <<"\n">>,                       \* :020000040000FA
      EndOfFilePrefix \o <<"\n">>,                             \* :00000001FF
      RecordLine(2, 0, 4, <<0, 1>>, SumToZero(2, 0, 4, <<0, 1>>)),  \* other upper word
      RecordLine(0, 0, 1, << >>, 254),                         \* type 01, wrong checksum
      RecordLine(0, 1, 1, << >>, SumToZero(0, 1, 1, << >>)),   \* type 01, address 1
      RecordLine(2, 0, 2, <<16, 0>>, 0),                       \* type 02, wrong checksum
      <<":", "0", "0", "0", "0", "0", "0", "0", "1", "f", "f", "\n">>,
      <<":", "0", "1", "0", "0", "0", "0", "0", "0", "\n">>,   \* record cut after the type
      <<":", "0", "2", "0", "0", "0", "0", "0", "4", "0", "0", "0", "0", "f", "a", "\n">>,
      <<"#", "\n">> }

Lines == DataLines \cup OtherLines

Files == UNION {[1..n -> Lines] : n \in 0..MaxLines}

InitParse ==
    /\ file \in Files
    /\ lineno = 0
    /\ address = 0
    /\ data = << >>
    /\ orig = << >>
    /\ checksum = TRUE
    /\ run = TRUE
    /\ frames = << >>
    /\ pc = "parse"
    /\ exc = "none"
    /\ dev = "new"
    /\ fi = 0
    /\ off = 0
    /\ sent = << >>
    /\ reads = 0
    /\ ack = -1
    /\ call = NoCall

NextParse ==
    \/ SkipLine
    \/ AcceptRecord
    \/ RejectUnsupported
    \/ RejectChecksum
    \/ RejectMalformed
    \/ NoData
    \/ ReturnImage

SpecParse == InitParse /\ [][NextParse]_vars

-----------------------------------------------------------------------------
(* twos_complement on its own, and with read_intel_hex *)

\* a call twos_complement(v, n) with n in 1..MaxBits and v in 0..2^n - 1
InitTwos ==
    /\ file = << >>
    /\ lineno = 0
    /\ address = 0
    /\ data = << >>
    /\ orig = << >>
    /\ checksum = TRUE
    /\ run = TRUE
    /\ frames = << >>
    /\ pc = "twos"
    /\ exc = "none"
    /\ dev = "new"
    /\ fi = 0
    /\ off = 0
    /\ sent = << >>
    /\ reads = 0
    /\ ack = -1
    /\ \E n \in 1..MaxBits :
          \E v \in 0..(Pow2(n) - 1) :
              call = [input_value |-> v, num_bits |-> n, result |-> -1]

TwosComplement ==
    /\ pc = "twos"
    /\ call' = [call EXCEPT !.result = twos_complement(call.input_value, call.num_bits)]
    /\ pc' = "twos_done"
    /\ UNCHANGED <<parseVars, data, orig, checksum, run, frames, exc, flashVars>>

InitChecksum == InitTwos \/ InitParse

NextChecksum == TwosComplement \/ NextParse

SpecChecksum == InitChecksum /\ [][NextChecksum]_vars

-----------------------------------------------------------------------------
(* Vocabulary of the properties of to_frames and flash *)

\* least k with k * d >= n
CeilDiv(n, d) == CHOOSE k \in 0..n : k * d >= n /\ (k - 1) * d < n

\* to_frames has returned
Built == pc \in {"open", "send", "read", "done", "failed"}

\* positions in the frame list, from the image length and the options
NumChunks == CeilDiv(Len(orig), ChunkSize)
VerifyIdx == 1 + NumChunks + 1
RestoreIdx == 1 + NumChunks + (IF checksum THEN 1 ELSE 0) + 1
RunIdx == RestoreIdx + 1

\* the 1-byte WRITE that puts the true first byte at address 0
RestoreFrame == <<Dollar, 4, WRITE, 0, 0, orig[1]>>

\* the bytes handed to the transport for the frame in position k, report ids removed
RECURSIVE SentBytesFrom(_, _)
SentBytesFrom(i, k) ==
    IF i > Len(sent) THEN << >>
    ELSE (IF sent[i].frame = k THEN Tail(sent[i].report) ELSE << >>) \o SentBytesFrom(i + 1, k)

SentBytes(k) == SentBytesFrom(1, k)

RestoreSent == \E i \in DOMAIN sent : Tail(sent[i].report) = RestoreFrame

\* the run was abandoned because an acknowledgement was not 64
Abandoned == pc = "failed" /\ ack # -1 /\ ack # AckOk

-----------------------------------------------------------------------------
(* C1 *)

\* C1 as stated: whenever the run is abandoned because an acknowledgement is
\* not 64, the restorative WRITE [0,0,true_first_byte] has not been sent.
C1_NeverSentOnAbandon == Abandoned => ~RestoreSent

\* C1 amended: when the run is abandoned on the acknowledgement of a frame, the
\* restorative WRITE has been sent if and only if that frame is the restorative
\* WRITE itself or the RUN frame after it; abandoned on SETUP, on a chunk frame
\* or on VERIFY, the true first byte was never transmitted.
C1_SentOnlyFromRestoreOn ==
    Abandoned =>
        /\ RestoreSent <=> (frames[fi] = RestoreFrame \/ frames[fi][3] = RUN)
        /\ frames[fi][3] \in {SETUP, ERASE, VERIFY} => ~RestoreSent
        /\ (frames[fi][3] = WRITE /\ frames[fi] # RestoreFrame) => ~RestoreSent

C1_Witness ==
    /\ Abandoned
    /\ frames[fi][3] = VERIFY
    /\ Len(orig) > ChunkSize
    /\ orig[1] # Sentinel
    /\ ~RestoreSent

-----------------------------------------------------------------------------
(* C2 *)

VerifyPositions == {k \in DOMAIN frames : frames[k][3] = VERIFY}

\* C2 as stated: with verification requested, the two CRC bytes of the VERIFY
\* frame are the CRC-16, high byte first, of the image with its true first byte.
C2_CrcOfTrueImage ==
    (Built /\ checksum) =>
        /\ VerifyPositions = {VerifyIdx}
        /\ LET c == CrcValue(orig)
           IN  SubSeq(frames[VerifyIdx], 8, 9) = <<c \div 256, c % 256>>

\* C2 amended: with verification requested, the two CRC bytes of the VERIFY
\* frame are the CRC-16, high byte first, of the image with its first byte
\* replaced by the sentinel 0xFF (the bytes the chunk frames carry).
C2_CrcOfSentinelImage ==
    (Built /\ checksum) =>
        LET sub == [i \in 1..Len(orig) |-> IF i = 1 THEN 255 ELSE orig[i]]
            c == CrcValue(sub)
        IN  /\ VerifyPositions = {VerifyIdx}
            /\ Len(frames[VerifyIdx]) = 9
            /\ SubSeq(frames[VerifyIdx], 8, 9) = <<c \div 256, c % 256>>

C2_Witness ==
    /\ Built
    /\ checksum
    /\ orig[1] = 18
    /\ Len(orig) = 300
    /\ frames[VerifyIdx][3] = VERIFY

-----------------------------------------------------------------------------
(* C3 *)

\* C3: once the acknowledgement read for frame k is not 64 the session is over:
\* flash has failed at frame k, frame k went out exactly once, no chunk of a
\* later frame was sent, and the read of frame k was the last read.
C3_AbortAtOnce ==
    (ack # -1 /\ ack # AckOk) =>
        /\ pc = "failed"
        /\ exc \in {"BadChecksum", "BadResponse"}
        /\ reads = fi
        /\ \A i \in DOMAIN sent : sent[i].frame <= fi
        /\ SentBytes(fi) = frames[fi]

C3_Witness ==
    /\ ack = 63
    /\ pc = "failed"
    /\ fi = 2
    /\ Len(frames) >= 5
    /\ Len(frames[2]) > ReportSize

-----------------------------------------------------------------------------
(* C4 *)

\* C4: a non-64 acknowledgement is reported as BadChecksum if and only if the
\* frame being acknowledged is the VERIFY frame, and as BadResponse for the
\* SETUP, ERASE, WRITE and RUN frames.
C4_Classification ==
    (ack # -1 /\ ack # AckOk) =>
        /\ exc = "BadChecksum" <=> (checksum /\ fi = VerifyIdx)
        /\ exc = "BadResponse" <=> ~(checksum /\ fi = VerifyIdx)

C4_Witness ==
    /\ ack = 0
    /\ exc = "BadChecksum"
    /\ checksum
    /\ fi = VerifyIdx
    /\ frames[fi][3] = VERIFY

-----------------------------------------------------------------------------
(* C5 *)

\* C5: in every frame before the restorative WRITE that carries a byte for
\* address 0 (the chunk frame at address 0), that byte is 0xFF whatever the
\* true first byte is; the true first byte is carried by the final 1-byte
\* WRITE [0,0,first_byte] only.
C5_SentinelAtAddressZero ==
    Built =>
        /\ frames[2][3] \in {ERASE, WRITE}
        /\ \A k \in 1..(RestoreIdx - 1) :
              (frames[k][3] \in {ERASE, WRITE} /\ frames[k][4] = 0 /\ frames[k][5] = 0)
                  => (Len(frames[k]) >= 6 /\ frames[k][6] = Sentinel)
        /\ \A k \in 1..(NumChunks - 1) : frames[2 + k][4] * 256 + frames[2 + k][5] > 0
        /\ frames[RestoreIdx] = RestoreFrame

C5_Witness ==
    /\ Built
    /\ orig[1] = 18
    /\ Len(orig) > ChunkSize
    /\ frames[2][6] = Sentinel
    /\ frames[RestoreIdx][6] = 18

-----------------------------------------------------------------------------
(* C6 *)

\* the commands of the frame list, in order
Commands == [k \in DOMAIN frames |-> frames[k][3]]

ChunkAddr(k) == frames[k][4] * 256 + frames[k][5]

\* C6: the frame list is SETUP, then the chunk frames in ascending address
\* order, then VERIFY iff verification is requested, then the restorative
\* 1-byte WRITE to address 0, then RUN iff run is requested.
C6_FrameOrder ==
    Built =>
        /\ Len(frames) = 1 + NumChunks + (IF checksum THEN 1 ELSE 0) + 1 + (IF run THEN 1 ELSE 0)
        /\ frames[1] = <<Dollar, 4, SETUP, 165, 241, 0>>
        /\ \A k \in 2..(1 + NumChunks) :
              /\ frames[k][3] \in {ERASE, WRITE}
              /\ ChunkAddr(k) = (k - 2) * ChunkSize
        /\ \A k \in DOMAIN frames : frames[k][3] = VERIFY <=> (checksum /\ k = VerifyIdx)
        /\ frames[RestoreIdx] = RestoreFrame
        /\ \A k \in DOMAIN frames : frames[k][3] = RUN <=> (run /\ k = RunIdx)
        /\ run => (Len(frames) = RunIdx /\ frames[RunIdx] = <<Dollar, 3, RUN, 0, 0>>)
        /\ ~run => Len(frames) = RestoreIdx

C6_Witness ==
    /\ Built
    /\ checksum
    /\ run
    /\ Len(orig) = 300
    /\ Commands = <<SETUP, ERASE, WRITE, WRITE, VERIFY, WRITE, RUN>>

-----------------------------------------------------------------------------
(* C7 *)

\* C7: for an image of length N >= 1 there are exactly ceil(N/128) chunk frames
\* between SETUP and the VERIFY/restorative frames, and the chunk frame that
\* starts at address addr is an ERASE iff addr is a multiple of 512, else a
\* WRITE.
C7_ChunkCountAndKind ==
    Built =>
        LET n == Len(frames) - 1 - (IF checksum THEN 1 ELSE 0) - 1 - (IF run THEN 1 ELSE 0)
        IN  /\ n = CeilDiv(Len(orig), ChunkSize)
            /\ \A k \in 2..(1 + n) :
                  /\ frames[k][3] \in {ERASE, WRITE}
                  /\ frames[k][3] = ERASE <=> ChunkAddr(k) % PageSize = 0

C7_Witness ==
    /\ Built
    /\ Len(orig) = 513
    /\ Len(frames) >= 6
    /\ frames[6][3] = ERASE
    /\ ChunkAddr(6) = 512
    /\ frames[5][3] = WRITE

-----------------------------------------------------------------------------
(* C10 *)

\* C10 as stated: after to_frames returns, the image of the caller holds the
\* same bytes as before the call, so that building the frames again from it
\* gives the same frame list.
C10_ImageRestored ==
    Built =>
        /\ data = orig
        /\ to_frames(data, checksum, run) = frames

-----------------------------------------------------------------------------
(* Vocabulary of the properties of read_intel_hex *)

TypeField(line) == PyInt16(PySlice(line, 7, 9))

\* ":LLAAAATTDD..DDCC": the record marker, then hexadecimal pairs only, LL of
\* them between the type and the checksum
WellFormedRecord(line) ==
    /\ line[1] = ":"
    /\ CountField(line) >= 0
    /\ LET body == StripRight(line)
       IN  /\ Len(body) = 11 + 2 * CountField(line)
           /\ \A i \in 2..Len(body) : HexVal(body[i]) >= 0

\* the bytes of a well-formed record, checksum byte included
RecordBytes(line) == HexPairs(line, 1, 11 + 2 * CountField(line))

\* the embedded checksum byte is not the record checksum of the bytes before it
EmbeddedSumWrong(line) ==
    /\ WellFormedRecord(line)
    /\ SumSeq(RecordBytes(line)) % 256 # 0

\* a record of type 00 with a readable load address
DataRecord(line) ==
    /\ line[1] = ":"
    /\ PySlice(line, 7, 9) = <<"0", "0">>
    /\ AddressField(line) >= 0

-----------------------------------------------------------------------------
(* C8 *)

\* C8 as stated: when the parser comes to a record (not an end-of-file record)
\* whose embedded checksum byte differs from the record checksum of its
\* preceding bytes, parsing fails with BadChecksum and returns no image.
C8_AnyRecordBadChecksum ==
    [][(Parsing /\ EmbeddedSumWrong(CurrentLine) /\ TypeField(CurrentLine) # 1)
          => (pc' = "raised" /\ exc' = "BadChecksum")]_vars

\* C8 amended: when the parser comes to a data record (type 00) whose load
\* address equals the number of bytes accumulated so far and whose embedded
\* checksum byte differs from the record checksum of its preceding bytes,
\* parsing fails with BadChecksum and returns no image.
C8_LinearDataRecordBadChecksum ==
    [][(/\ Parsing
        /\ EmbeddedSumWrong(CurrentLine)
        /\ DataRecord(CurrentLine)
        /\ AddressField(CurrentLine) = Len(data))
          => (pc' = "raised" /\ exc' = "BadChecksum" /\ data' = data)]_vars

C8_Witness ==
    /\ pc = "raised"
    /\ exc = "BadChecksum"
    /\ data # << >>
    /\ lineno < Len(file)
    /\ EmbeddedSumWrong(file[lineno + 1])
    /\ DataRecord(file[lineno + 1])
    /\ AddressField(file[lineno + 1]) = Len(data)

-----------------------------------------------------------------------------
(* C9 *)

\* C9: when the parser comes to a data record whose stated load address is not
\* the number of image bytes accumulated from the earlier records (a gap, an
\* overlap or an out-of-order record), parsing fails with Unsupported and
\* returns no image.
C9_NonLinearAddress ==
    [][(Parsing /\ DataRecord(CurrentLine) /\ AddressField(CurrentLine) # Len(data))
          => (pc' = "raised" /\ exc' = "Unsupported" /\ data' = data)]_vars

C9_Witness ==
    /\ pc = "raised"
    /\ exc = "Unsupported"
    /\ lineno < Len(file)
    /\ DataRecord(file[lineno + 1])
    /\ AddressField(file[lineno + 1]) < Len(data)
    /\ ~EmbeddedSumWrong(file[lineno + 1])

-----------------------------------------------------------------------------
(* C11 *)

\* C11: the device handle is acquired at most once per run and released on
\* every exit path: whenever the run has ended (normal return, failure to open,
\* BadChecksum, BadResponse) the handle is closed, a closed handle stays
\* closed, and the handle is opened only from its fresh state.
C11_HandleReleased ==
    [][/\ pc' \in {"done", "failed"} => dev' = "closed"
       /\ dev = "closed" => dev' = "closed"
       /\ (dev' = "open" /\ dev # "open") => dev = "new"
       /\ dev' = "open" => pc' \in {"send", "read"}]_vars

C11_Witness ==
    /\ pc = "failed"
    /\ exc = "BadResponse"
    /\ reads = 3
    /\ Len(sent) > 3
    /\ dev = "closed"

-----------------------------------------------------------------------------
(* C12 *)

\* the frames all of whose bytes have been written
Completed == {k \in DOMAIN frames : SentBytes(k) = frames[k]}

\* C12: frames are handled in list order, one in flight at a time: the writes
\* of a frame are all performed before its one acknowledgement read, no write
\* of frame k happens before the read of frame k-1 has returned, and the
\* number of reads never exceeds the number of frames whose writes completed.
C12_OneFrameInFlight ==
    /\ \A i \in DOMAIN sent : sent[i].frame <= reads + 1
    /\ \A i, j \in DOMAIN sent : i < j => sent[i].frame <= sent[j].frame
    /\ reads <= Cardinality(Completed)
    /\ pc = "send" => (reads = fi - 1 /\ \A k \in 1..(fi - 1) : k \in Completed)
    /\ pc = "read" => (reads = fi - 1 /\ \A k \in 1..fi : k \in Completed)
    /\ (pc \in {"done", "failed"} /\ ack # -1) => (reads = fi /\ \A k \in 1..fi : k \in Completed)

C12_Witness ==
    /\ pc = "read"
    /\ fi = 3
    /\ reads = 2
    /\ Len(frames[3]) > ReportSize
    /\ Len(sent) >= 6

-----------------------------------------------------------------------------
(* C13 *)

\* the writes of the log that belong to the frame in position k
WritesOf(k) == {i \in DOMAIN sent : sent[i].frame = k}

\* C13: a frame of length L goes out in exactly ceil(L/64) writes; every write
\* is the report id 0 followed by 1 to 64 frame bytes, and the writes of a
\* frame, report ids removed, concatenate to the frame.
C13_ChunkedWrites ==
    /\ \A i \in DOMAIN sent :
          /\ sent[i].report[1] = 0
          /\ Len(sent[i].report) >= 2
          /\ Len(sent[i].report) <= 1 + ReportSize
    /\ \A k \in DOMAIN frames :
          (k < fi \/ (k = fi /\ pc \in {"read", "done", "failed"})) =>
              /\ Cardinality(WritesOf(k)) = CeilDiv(Len(frames[k]), ReportSize)
              /\ SentBytes(k) = frames[k]

C13_Witness ==
    /\ pc = "done"
    /\ \E k \in DOMAIN frames :
          /\ Len(frames[k]) = 2 * ReportSize
          /\ Cardinality(WritesOf(k)) = 2

-----------------------------------------------------------------------------
(* C14 *)

\* a record in due form whose bytes, checksum included, sum to 0 modulo 256
ValidRecord(line) == WellFormedRecord(line) /\ SumSeq(RecordBytes(line)) % 256 = 0

\* the line begins with the eleven characters ":00000001FF"
CanonicalEndOfFile(line) ==
    PySlice(line, 0, 11) = <<":", "0", "0", "0", "0", "0", "0", "0", "1", "F", "F">>

\* C14 as stated: when the parser comes to an end-of-file record (a valid
\* record of type 01) after at least one data byte has been accumulated,
\* parsing ends successfully and returns the image accumulated so far.
C14_AnyType01Returns ==
    [][(Parsing /\ data # << >> /\ ValidRecord(CurrentLine) /\ TypeField(CurrentLine) = 1)
          => (pc' = "returned" /\ exc' = "none" /\ data' = data)]_vars

\* C14 amended: when the parser comes to a line that begins with ":00000001FF"
\* (the end-of-file record with address 0000, in upper case) after at least one
\* data byte has been accumulated, parsing ends successfully and returns the
\* image accumulated so far; the lines after it are never looked at, and the
\* result does not change once returned.
C14_CanonicalEndOfFileReturns ==
    [][/\ (Parsing /\ data # << >> /\ CanonicalEndOfFile(CurrentLine))
            => (pc' = "returned" /\ exc' = "none" /\ data' = data /\ lineno' = lineno)
       /\ pc = "returned" => UNCHANGED vars]_vars

C14_Witness ==
    /\ pc = "returned"
    /\ exc = "none"
    /\ data # << >>
    /\ lineno + 1 < Len(file)
    /\ CanonicalEndOfFile(file[lineno + 1])
    /\ EmbeddedSumWrong(file[lineno + 2])

-----------------------------------------------------------------------------
(* C15 *)

\* a valid record of type 04 that sets the upper address word to zero
ZeroUpperWordRecord(line) ==
    /\ ValidRecord(line)
    /\ RecordBytes(line) = <<2, 0, 0, 4, 0, 0, 250>>

\* the line begins with the fifteen characters ":020000040000FA"
CanonicalZeroUpperWord(line) ==
    PySlice(line, 0, 15) =
        <<":", "0", "2", "0", "0", "0", "0", "0", "4", "0", "0", "0", "0", "F", "A">>

\* a record whose type field reads as a type other than 00
NonDataRecord(line) == line[1] = ":" /\ TypeField(line) > 0

Skipped ==
    /\ pc' = "parse"
    /\ lineno' = lineno + 1
    /\ data' = data
    /\ address' = address

Refused == pc' = "raised" /\ exc' = "Unsupported" /\ data' = data

\* an input that yields no data bytes fails with Unsupported
NoDataRefused ==
    /\ (pc = "parse" /\ lineno = Len(file) /\ data = << >>) => Refused
    /\ pc' = "returned" => data' # << >>

\* C15 as stated: the extended-linear-address record that sets the zero upper
\* word is skipped without adding bytes or moving the expected address; every
\* other record whose type is not 00 makes parsing fail with Unsupported,
\* whatever its address and checksum; an input without data bytes fails with
\* Unsupported.
C15_AnyNonDataRefused ==
    [][/\ (Parsing /\ ZeroUpperWordRecord(CurrentLine)) => Skipped
       /\ (Parsing /\ NonDataRecord(CurrentLine) /\ ~ZeroUpperWordRecord(CurrentLine)) => Refused
       /\ NoDataRefused]_vars

\* C15 amended: a line that begins with ":020000040000FA" is skipped without
\* adding bytes or moving the expected address; every other record whose type
\* is not 00, except a line that begins with ":00000001FF" (end of file), makes
\* parsing fail with Unsupported, whatever its address and checksum; an input
\* without data bytes fails with Unsupported.
C15_NonDataRefusedButTwo ==
    [][/\ (Parsing /\ CanonicalZeroUpperWord(CurrentLine)) => Skipped
       /\ (/\ Parsing
           /\ NonDataRecord(CurrentLine)
           /\ ~CanonicalZeroUpperWord(CurrentLine)
           /\ ~CanonicalEndOfFile(CurrentLine)) => Refused
       /\ NoDataRefused]_vars

C15_Witness ==
    /\ pc = "raised"
    /\ exc = "Unsupported"
    /\ lineno = 2
    /\ lineno < Len(file)
    /\ CanonicalZeroUpperWord(file[1])
    /\ data # << >>
    /\ TypeField(file[lineno + 1]) = 4
    /\ ValidRecord(file[lineno + 1])

-----------------------------------------------------------------------------
(* C18 *)

\* the lines the loop has accepted as data records so far
AcceptedLines == {i \in 1..lineno : file[i][1] = ":" /\ PySlice(file[i], 7, 9) = <<"0", "0">>}

\* the data bytes of the accepted records among lines i..lineno, in file order
RECURSIVE AcceptedDataFrom(_)
AcceptedDataFrom(i) ==
    IF i > lineno THEN << >>
    ELSE (IF i \in AcceptedLines
          THEN SubSeq(RecordBytes(file[i]), 5, 4 + CountField(file[i]))
          ELSE << >>) \o AcceptedDataFrom(i + 1)

\* C18: at every step of read_intel_hex the running address is the number of
\* bytes accumulated, the image is the concatenation in file order of the data
\* bytes of the accepted records, and byte i of the image is the byte the file
\* declares for address i.
C18_LinearImage ==
    pc \in {"parse", "returned", "raised"} =>
        /\ address = Len(data)
        /\ data = AcceptedDataFrom(1)
        /\ \A i \in 1..Len(data) : data[i] = (17 * (i - 1) + 3) % 256
        /\ \A k \in AcceptedLines :
              \A j \in 1..CountField(file[k]) :
                  data[AddressField(file[k]) + j] = RecordBytes(file[k])[4 + j]

C18_Witness ==
    /\ pc = "returned"
    /\ Len(data) = 3
    /\ Cardinality(AcceptedLines) = 2
    /\ address = 3

-----------------------------------------------------------------------------
(* C16 *)

\* C16: for every bit width n >= 1 and every v in 0..2^n - 1,
\* twos_complement(v, n) is (2^n - v) mod 2^n; and for every data record
\* accepted by read_intel_hex the sum of its covered bytes (length, two address
\* bytes, type, data) plus its checksum byte is 0 modulo 256.
C16_TwosComplement ==
    /\ pc = "twos_done" =>
          /\ call.num_bits >= 1
          /\ call.input_value \in 0..(2 ^ call.num_bits - 1)
          /\ call.result = (2 ^ call.num_bits - call.input_value) % (2 ^ call.num_bits)
    /\ pc \in {"parse", "returned", "raised"} =>
          \A k \in AcceptedLines :
              LET bytes == RecordBytes(file[k])
                  covered == SubSeq(bytes, 1, Len(bytes) - 1)
              IN  /\ Len(bytes) = CountField(file[k]) + 5
                  /\ (SumSeq(covered) + bytes[Len(bytes)]) % 256 = 0

C16_Witness ==
    /\ pc = "twos_done"
    /\ call.num_bits = 8
    /\ call.input_value = 200
    /\ call.result = 56

-----------------------------------------------------------------------------
(* C17 *)

\* the payload of the frame in position k: what follows '$', length and command
Payload(k) == SubSeq(frames[k], 4, Len(frames[k]))

\* the image with only its first byte replaced by 0xFF
Substituted == [i \in 1..Len(orig) |-> IF i = 1 THEN 255 ELSE orig[i]]

\* C17: the chunk frames partition the image: every chunk frame but the last
\* carries exactly 128 data bytes, the last between 1 and 128, each payload
\* starts with the 2-byte big-endian address of its first data byte, and the
\* data bytes of the chunk frames in order are the image with only its first
\* byte replaced by 0xFF.
C17_ChunksPartitionImage ==
    Built =>
        \A c \in 1..NumChunks :
            LET p == Payload(1 + c)
                first == (c - 1) * 128
                count == Len(p) - 2
            IN  /\ count = (IF c < NumChunks THEN 128 ELSE Len(orig) - first)
                /\ count \in 1..128
                /\ p[1] \in 0..255
                /\ p[2] \in 0..255
                /\ p[1] * 256 + p[2] = first
                /\ \A j \in 1..count : p[2 + j] = Substituted[first + j]

-----------------------------------------------------------------------------
(* C19 *)

\* C19: for every image read_intel_hex can return, images longer than 65536
\* bytes included, every element of every frame produced by to_frames is an
\* integer in 0..255.
C19_FrameElementsAreBytes ==
    Built => \A k \in DOMAIN frames : \A j \in DOMAIN frames[k] : frames[k][j] \in 0..255

-----------------------------------------------------------------------------
(* C20 *)

\* frames 1..n have each been handed over exactly once, in order, and no other
SentExactly(n) ==
    /\ \A k \in 1..n : SentBytes(k) = frames[k]
    /\ \A i \in DOMAIN sent : sent[i].frame \in 1..n
    /\ \A i \in 1..(Len(sent) - 1) : sent[i].frame <= sent[i + 1].frame

\* what one acknowledgement read does
ReadStep ==
    reads' = reads + 1 =>
        /\ reads' = fi
        /\ ack' = 64 => (pc' = (IF fi = Len(frames) THEN "done" ELSE "send") /\ exc' = "none")
        /\ ack' # 64 => (pc' = "failed" /\ exc' \in {"BadChecksum", "BadResponse"} /\ fi' = fi)

\* C20: if every acknowledgement read returns, flash terminates; it returns
\* normally iff every acknowledgement is 64, every frame having then been sent
\* exactly once, in order, with one read per frame; otherwise it ends with a
\* failure at the first frame whose acknowledgement is not 64.
C20_FlashTerminates ==
    /\ <>(pc \in {"done", "failed"})
    /\ [][ReadStep]_vars
    /\ [](pc \in {"send", "read"} /\ reads > 0 => ack = 64)
    /\ [](pc = "done" => (ack = 64 /\ reads = Len(frames) /\ SentExactly(Len(frames))))
    /\ []((pc = "failed" /\ reads > 0) => (ack # 64 /\ reads = fi /\ SentExactly(fi)))

C20_Witness ==
    /\ pc = "done"
    /\ checksum
    /\ run
    /\ Len(orig) = 300
    /\ reads = Len(frames)
    /\ reads = 7

====
